---- MODULE Spec2Model ----
(* Model of osint_recon_cli_tool.py: the site registry, the two probe        *)
(* functions (check_with_requests, check_with_playwright), the per-handle    *)
(* loop check_username and the driver main.                                  *)
(*                                                                           *)
(* Strings are sequences of lexemes (TLA+ strings used as atoms).  The       *)
(* lexemes are cut so that every substring test the program performs         *)
(* ("x in y") is lexeme-aligned; str.lower() maps each lexeme to its         *)
(* lower-case form, str.format() replaces the "{}" lexeme.                   *)
EXTENDS Integers, Sequences, FiniteSets, TLC

\* ---------------------------------------------------------------- bounds
\* longest page body, in chunks (markers / filler), the remote site may serve
MaxBodyLen == 2

\* most usernames main() accepts (len(sys.argv) > 4 is rejected)
MaxUsernames == 3

\* ---------------------------------------------------------------- strings
\* str.lower() on one lexeme
LowerTok(t) ==
  CASE t = "Alice" -> "alice"
    [] t = "profilePage_" -> "profilepage_"
    [] t = "Sorry, this page isn't available" -> "sorry, this page isn't available"
    [] t = "User not found" -> "user not found"
    [] t = "This content isn't available" -> "this content isn't available"
    [] t = "Page not found" -> "page not found"
    [] t = "data-testid=\"UserName\"" -> "data-testid=\"username\""
    [] t = "data-testid=\"UserDescription\"" -> "data-testid=\"userdescription\""
    [] t = "This account doesn't exist" -> "this account doesn't exist"
    [] t = "Account suspended" -> "account suspended"
    [] t = "Hmm, couldn't find" -> "hmm, couldn't find"
    [] t = "This LinkedIn profile doesn't exist" -> "this linkedin profile doesn't exist"
    [] t = "No such member" -> "no such member"
    [] t = "Member since" -> "member since"
    [] OTHER -> t

\* s.lower()
Lower(s) == [i \in 1..Len(s) |-> LowerTok(s[i])]

\* needle in hay
Contains(hay, needle) ==
  \E i \in 0..(Len(hay) - Len(needle)) :
    \A j \in 1..Len(needle) : hay[i + j] = needle[j]

\* template.format(arg): every "{}" slot is replaced by arg
RECURSIVE Format(_, _)
Format(template, arg) ==
  IF template = <<>> THEN <<>>
  ELSE (IF Head(template) = "{}" THEN arg ELSE <<Head(template)>>)
         \o Format(Tail(template), arg)

\* ---------------------------------------------------------------- dicts
\* A Python dict is a sequence of [key, val] records in insertion order.
KeyIndex(d, k) ==
  IF \E i \in 1..Len(d) : d[i].key = k
  THEN CHOOSE i \in 1..Len(d) : d[i].key = k
  ELSE 0

Keys(d) == [i \in 1..Len(d) |-> d[i].key]

\* d[k] = v
DictSet(d, k, v) ==
  IF KeyIndex(d, k) = 0
  THEN Append(d, [key |-> k, val |-> v])
  ELSE [d EXCEPT ![KeyIndex(d, k)] = [key |-> k, val |-> v]]

\* {**a, **b}
RECURSIVE DictMerge(_, _)
DictMerge(a, b) ==
  IF b = <<>> THEN a
  ELSE DictMerge(DictSet(a, Head(b).key, Head(b).val), Tail(b))

\* ---------------------------------------------------------------- registry
SocialSites ==
  << [key |-> "Instagram", val |->
        [url |-> <<"https://www.", "instagram.com", "/", "{}", "/">>,
         method |-> "playwright",
         success_indicators |-> << <<"profilePage_">>,
                                   <<"\"username\":\"", "{}", "\"">>,
                                   <<"content=\"@", "{}">> >>,
         failure_indicators |-> << <<"Sorry, this page isn't available">>,
                                   <<"User not found">> >>]],
     [key |-> "Facebook", val |->
        [url |-> <<"https://www.", "facebook.com", "/", "{}", "/">>,
         method |-> "requests",
         success_indicators |-> << >>,
         failure_indicators |-> << <<"This content isn't available">>,
                                   <<"Page not found">> >>]],
     [key |-> "Twitter", val |->
        [url |-> <<"https://", "x.com", "/", "{}", "/">>,
         method |-> "playwright",
         success_indicators |-> << <<"data-testid=\"UserName\"">>,
                                   <<"data-testid=\"UserDescription\"">> >>,
         failure_indicators |-> << <<"This account doesn't exist">>,
                                   <<"Account suspended">> >>]],
     [key |-> "Snapchat", val |->
        [url |-> <<"https://www.", "snapchat.com", "/add", "/", "{}", "/">>,
         method |-> "playwright",
         success_indicators |-> << <<"data-testid=\"add-friend-button\"">>,
                                   <<"snapcode">> >>,
         failure_indicators |-> << <<"Hmm, couldn't find">>,
                                   <<"User not found">> >>]] >>

TechSites ==
  << [key |-> "LinkedIn", val |->
        [url |-> <<"https://www.", "linkedin.com", "/in", "/", "{}", "/">>,
         method |-> "requests",
         success_indicators |-> << >>,
         failure_indicators |-> << <<"This LinkedIn profile doesn't exist">> >>]],
     [key |-> "GitHub", val |->
        [url |-> <<"https://", "api.github.com", "/users", "/", "{}">>,
         method |-> "requests",
         success_indicators |-> << >>,
         failure_indicators |-> << >>]] >>

CATEGORIES ==
  [c \in {"1", "2", "3"} |->
     CASE c = "1" -> [name |-> "Social Sites", sites |-> SocialSites]
       [] c = "2" -> [name |-> "Tech Side", sites |-> TechSites]
       [] c = "3" -> [name |-> "All Sites",
                      sites |-> DictMerge(SocialSites, TechSites)]]

\* ---------------------------------------------------------------- results
NotFoundMsg == <<"Not Found">>
ErrorMsg == <<"Error checking">>

Ret(found, message) == [found |-> found, message |-> message]

\* ---------------------------------------------------------------- probes
\* Lines 118-119 and 173-174: some failure indicator, lowered, is in content
HasFailure(site_config, content) ==
  \E i \in 1..Len(site_config.failure_indicators) :
    Contains(content, Lower(site_config.failure_indicators[i]))

\* the success test without .lower() on the formatted indicator
HasSuccessNoLower(username, site_config, content) ==
  \E i \in 1..Len(site_config.success_indicators) :
    Contains(content, Format(site_config.success_indicators[i], username))

\* Lines 124-126: some success indicator, formatted and lowered, is in content
HasSuccess(username, site_config, content) ==
  \E i \in 1..Len(site_config.success_indicators) :
    Contains(content, Lower(Format(site_config.success_indicators[i], username)))

\* Lines 131-146: the status/redirect fallback of check_with_playwright.
\* status = 0 stands for page.goto() returning None.
StatusFallback(username, url, status, current_url) ==
  IF status = 200
  THEN IF Contains(url, <<"snapchat.com">>)
       THEN /\ ~Contains(current_url, <<"/explore/">>)
            /\ Contains(Lower(current_url), Lower(username))
       ELSE IF Contains(url, <<"instagram.com">>)
       THEN /\ Contains(current_url, <<"/">> \o username \o <<"/">>)
            /\ ~Contains(current_url, <<"login">>)
       ELSE IF Contains(url, <<"x.com">>) \/ Contains(url, <<"twitter.com">>)
       THEN /\ Contains(current_url, <<"/">> \o username)
            /\ ~Contains(current_url, <<"home">>)
       ELSE FALSE
  ELSE FALSE

\* Lines 99, 108-146: the verdict of check_with_playwright once the page
\* content and the post-navigation URL were captured.
pw_decide(username, site_config, status, page_content, current_url) ==
  LET url == Format(site_config.url, username)
      content == Lower(page_content)
  IN IF HasFailure(site_config, content) THEN Ret(FALSE, NotFoundMsg)
     ELSE IF HasSuccess(username, site_config, content) THEN Ret(TRUE, url)
     ELSE IF StatusFallback(username, url, status, current_url) THEN Ret(TRUE, url)
     ELSE Ret(FALSE, NotFoundMsg)

\* check_with_playwright as a function of what the browser session did:
\* fetch.raises names the exception raised inside the try block, if any.
check_with_playwright(username, site_config, fetch) ==
  IF fetch.raises # "none" THEN Ret(FALSE, ErrorMsg)
  ELSE pw_decide(username, site_config, fetch.status, fetch.body, fetch.final_url)

\* check_with_requests whose GitHub branch answers with the URL on any status
check_with_requests_url_always(username, site_config, fetch) ==
  LET url == Format(site_config.url, username)
  IN IF fetch.raises # "none" THEN Ret(FALSE, ErrorMsg)
     ELSE IF Contains(url, <<"api.github.com">>)
     THEN Ret(fetch.status = 200, url)
     ELSE IF fetch.status = 200
     THEN IF HasFailure(site_config, Lower(fetch.body))
          THEN Ret(FALSE, NotFoundMsg)
          ELSE Ret(TRUE, url)
     ELSE Ret(FALSE, NotFoundMsg)

\* check_with_requests that wants a success indicator before answering Found
check_with_requests_strict(username, site_config, fetch) ==
  LET url == Format(site_config.url, username)
  IN IF fetch.raises # "none" THEN Ret(FALSE, ErrorMsg)
     ELSE IF Contains(url, <<"api.github.com">>)
     THEN Ret(fetch.status = 200, IF fetch.status = 200 THEN url ELSE NotFoundMsg)
     ELSE IF fetch.status = 200
     THEN IF HasFailure(site_config, Lower(fetch.body))
          THEN Ret(FALSE, NotFoundMsg)
          ELSE IF HasSuccess(username, site_config, Lower(fetch.body))
          THEN Ret(TRUE, url)
          ELSE Ret(FALSE, NotFoundMsg)
     ELSE Ret(FALSE, NotFoundMsg)

\* Lines 154-183, for a fetch that returned or raised a RequestException.
check_with_requests(username, site_config, fetch) ==
  LET url == Format(site_config.url, username)
  IN IF fetch.raises # "none" THEN Ret(FALSE, ErrorMsg)
     ELSE IF Contains(url, <<"api.github.com">>)
     THEN Ret(fetch.status = 200, IF fetch.status = 200 THEN url ELSE NotFoundMsg)
     ELSE IF fetch.status = 200
     THEN IF HasFailure(site_config, Lower(fetch.body))
          THEN Ret(FALSE, NotFoundMsg)
          ELSE Ret(TRUE, url)
     ELSE Ret(FALSE, NotFoundMsg)

\* ---------------------------------------------------------------- environment
\* What the remote site and the network may answer to one fetch.
Handles == { <<"Alice">>, <<"api.github.com">> }

\* requests.get raises subclasses of requests.RequestException
RequestsRaises == {"ConnectionError", "Timeout"}

\* playwright raises playwright Error, and TimeoutError on a slow navigation
PlaywrightRaises == {"Error", "TimeoutError"}

\* except requests.Timeout: only timeouts are handled
IsRequestExceptionTimeoutOnly(e) == e = "Timeout"

\* except requests.RequestException (line 181)
IsRequestException(e) == e \in {"ConnectionError", "Timeout"}

\* a handler that lets TimeoutError escape
IsExceptionNoTimeout(e) == e = "Error"

\* except Exception (line 148)
IsException(e) == e \in {"Error", "TimeoutError", "ConnectionError", "Timeout"}

Chunks(site_config, username) ==
  { site_config.failure_indicators[i] : i \in 1..Len(site_config.failure_indicators) }
  \cup { Format(site_config.success_indicators[i], username) :
           i \in 1..Len(site_config.success_indicators) }
  \cup { <<"<html>">> }

RECURSIVE BodiesUpTo(_, _)
BodiesUpTo(chunks, n) ==
  IF n = 0 THEN { <<>> }
  ELSE LET shorter == BodiesUpTo(chunks, n - 1)
       IN shorter \cup { b \o c : b \in shorter, c \in chunks }

\* where a site sends a visitor it does not want to serve
RedirectTarget(url, username) ==
  IF Contains(url, <<"snapchat.com">>)
  THEN <<"https://www.", "snapchat.com", "/explore/">>
  ELSE IF Contains(url, <<"instagram.com">>)
  THEN <<"https://www.", "instagram.com", "/accounts/", "login", "/?next=", "/">>
         \o username \o <<"/">>
  ELSE IF Contains(url, <<"x.com">>)
  THEN <<"https://", "x.com", "/", "home">>
  ELSE <<"https://", "sso.example", "/", "login">>

FinalUrls(site_config, username) ==
  LET url == Format(site_config.url, username)
  IN { url, Lower(url), RedirectTarget(url, username) }

Raised(kind) == [raises |-> kind, status |-> 0, body |-> <<>>, final_url |-> <<>>]

Responses(site_config, username, statuses) ==
  [raises : {"none"}, status : statuses,
   body : BodiesUpTo(Chunks(site_config, username), MaxBodyLen),
   final_url : FinalUrls(site_config, username)]

\* outcomes of requests.get(url, ...) followed by response.text
RequestsFetches(site_config, username) ==
  Responses(site_config, username, {200, 404})
  \cup { Raised(k) : k \in RequestsRaises }

\* outcomes of the browser session; status 0 is a navigation without response
PlaywrightFetches(site_config, username) ==
  Responses(site_config, username, {200, 404, 0})
  \cup { Raised(k) : k \in PlaywrightRaises }

\* ---------------------------------------------------------------- state
VARIABLES
  pc,        \* position in main / check_username / check_with_playwright
  choice,    \* the category typed at the prompt
  usernames, \* usernames main has still to iterate over
  username,  \* the username being checked
  si,        \* position of the site loop of check_username
  results,   \* the results dict of check_username, then of main
  ret,       \* value returned by the probe function, until it is stored
  exc,       \* exception raised by the current probe's fetch, "none" if none
  response,  \* status of the response page.goto returned
  driver,    \* the sync_playwright() context: "stopped" or "running"
  browser,   \* the launched browser: "none", "open" or "closed"
  idle,      \* whole seconds slept since the last probe returned (capped)
  probed,    \* whether some probe has returned in this run
  inflight,  \* probes started and not yet returned
  probe      \* input of a single probe call (ProbeSpec only)

vars == <<pc, choice, usernames, username, si, results, ret, exc, response,
          driver, browser, idle, probed, inflight, probe>>

NoRet == Ret(FALSE, <<>>)
NoProbe == [site_config |-> <<>>, username |-> <<>>, fetch |-> Raised("none")]

RECURSIVE SeqsUpTo(_, _)
SeqsUpTo(S, n) ==
  IF n = 0 THEN { <<>> }
  ELSE LET shorter == SeqsUpTo(S, n - 1)
       IN shorter \cup { Append(s, x) : s \in shorter, x \in S }

selected_sites == CATEGORIES[choice].sites
site_name == selected_sites[si].key
site_config == selected_sites[si].val

PwPcs == {"pw_enter", "pw_launch", "pw_goto", "pw_capture", "pw_except"}

Init ==
  /\ pc = "main"
  /\ choice \in {"1", "2", "3", "x"}
  /\ usernames \in (SeqsUpTo(Handles, MaxUsernames) \ { <<>> })
  /\ username = <<>>
  /\ si = 0
  /\ results = <<>>
  /\ ret = NoRet
  /\ exc = "none"
  /\ response = 0
  /\ driver = "stopped"
  /\ browser = "none"
  /\ idle = 0
  /\ probed = FALSE
  /\ inflight = 0
  /\ probe = NoProbe

\* main, lines 218-224: the category prompt
ChooseCategory ==
  /\ pc = "main"
  /\ pc' = IF choice \in DOMAIN CATEGORIES THEN "next_user" ELSE "exit"
  /\ UNCHANGED <<choice, usernames, username, si, results, ret, exc, response,
                 driver, browser, idle, probed, inflight, probe>>

\* main, line 226 and the entry of check_username (line 187)
NextUser ==
  /\ pc = "next_user"
  /\ IF usernames = <<>>
     THEN /\ pc' = "done"
          /\ UNCHANGED <<usernames, username, si, results>>
     ELSE /\ username' = Head(usernames)
          /\ usernames' = Tail(usernames)
          /\ results' = <<>>
          /\ si' = 1
          /\ pc' = "site_loop"
  /\ UNCHANGED <<choice, ret, exc, response, driver, browser, idle, probed,
                 inflight, probe>>

\* check_username, lines 189-197: next site and dispatch on its method,
\* or return the results to main at the end of the loop
NextSite ==
  /\ pc = "site_loop"
  /\ IF si <= Len(selected_sites)
     THEN /\ pc' = IF site_config.method = "playwright" THEN "pw_enter" ELSE "requests"
          /\ inflight' = inflight + 1
          /\ exc' = "none"
     ELSE /\ pc' = "report"
          /\ UNCHANGED <<inflight, exc>>
  /\ UNCHANGED <<choice, usernames, username, si, results, ret, response,
                 driver, browser, idle, probed, probe>>

\* check_with_requests, lines 152-183
CallRequests ==
  /\ pc = "requests"
  /\ \E fetch \in RequestsFetches(site_config, username) :
       /\ exc' = fetch.raises
       /\ IF fetch.raises # "none" /\ ~IsRequestException(fetch.raises)
          THEN pc' = "crashed" /\ UNCHANGED ret
          ELSE /\ ret' = check_with_requests(username, site_config, fetch)
               /\ pc' = "store"
  /\ UNCHANGED <<choice, usernames, username, si, results, response, driver,
                 browser, idle, probed, inflight, probe>>

\* sync_playwright().__exit__ without any effect on a browser left open
WithExitLeaking(b) == b

\* leaving the "with sync_playwright()" block (line 93): the driver stops and
\* takes down the browser it launched, if browser.close() did not already
WithExit(b) == IF b = "open" THEN "closed" ELSE b

\* an exception inside the with block, lines 93-146, on its way to line 148
PwRaise(e) ==
  /\ exc' = e
  /\ driver' = "stopped"
  /\ browser' = WithExit(browser)
  /\ pc' = IF IsException(e) THEN "pw_except" ELSE "crashed"
  /\ UNCHANGED response

\* line 93: sync_playwright().__enter__ starts the driver
PwEnter ==
  /\ pc = "pw_enter"
  /\ \/ /\ driver' = "running"
        /\ browser' = "none"
        /\ pc' = "pw_launch"
        /\ UNCHANGED <<exc, response>>
     \/ /\ exc' = "Error"
        /\ browser' = "none"
        /\ pc' = "pw_except"
        /\ UNCHANGED <<driver, response>>
  /\ UNCHANGED <<choice, usernames, username, si, results, ret, idle, probed,
                 inflight, probe>>

\* lines 94-96: launch, new_context, new_page
PwLaunch ==
  /\ pc = "pw_launch"
  /\ \/ /\ browser' = "open"
        /\ pc' = "pw_goto"
        /\ UNCHANGED <<exc, response, driver>>
     \/ PwRaise("Error")
  /\ UNCHANGED <<choice, usernames, username, si, results, ret, idle, probed,
                 inflight, probe>>

\* lines 99-105: navigation (new_context / new_page failures land here too)
PwGoto ==
  /\ pc = "pw_goto"
  /\ \/ /\ response' \in {200, 404, 0}
        /\ pc' = "pw_capture"
        /\ UNCHANGED <<exc, driver, browser>>
     \/ \E e \in PlaywrightRaises : PwRaise(e)
  /\ UNCHANGED <<choice, usernames, username, si, results, ret, idle, probed,
                 inflight, probe>>

\* lines 108-146: capture content and URL, browser.close(), decide, and
\* return through the end of the with block
PwCapture ==
  /\ pc = "pw_capture"
  /\ \/ \E fetch \in PlaywrightFetches(site_config, username) :
          /\ fetch.raises = "none"
          /\ fetch.status = response
          /\ ret' = check_with_playwright(username, site_config, fetch)
          /\ browser' = WithExit("closed")
          /\ driver' = "stopped"
          /\ pc' = "store"
          /\ UNCHANGED <<exc, response>>
     \/ PwRaise("Error") /\ UNCHANGED ret
  /\ UNCHANGED <<choice, usernames, username, si, results, idle, probed,
                 inflight, probe>>

\* lines 148-150
PwExcept ==
  /\ pc = "pw_except"
  /\ ret' = check_with_playwright(username, site_config, Raised(exc))
  /\ pc' = "store"
  /\ UNCHANGED <<choice, usernames, username, si, results, exc, response,
                 driver, browser, idle, probed, inflight, probe>>

\* line 199 skipped for probes that ended in an error
StoreDroppingErrors ==
  /\ pc = "store"
  /\ results' = IF ret.message = ErrorMsg THEN results
                ELSE DictSet(results, site_name, ret)
  /\ ret' = NoRet
  /\ inflight' = inflight - 1
  /\ idle' = 0
  /\ probed' = TRUE
  /\ pc' = "sleep"
  /\ UNCHANGED <<choice, usernames, username, si, exc, response, driver,
                 browser, probe>>

\* check_username, line 199: the probe has returned
Store ==
  /\ pc = "store"
  /\ results' = DictSet(results, site_name, ret)
  /\ ret' = NoRet
  /\ inflight' = inflight - 1
  /\ idle' = 0
  /\ probed' = TRUE
  /\ pc' = "sleep"
  /\ UNCHANGED <<choice, usernames, username, si, exc, response, driver,
                 browser, probe>>

\* time.sleep(1) only between two sites of one username
SleepBetweenSites ==
  /\ pc = "sleep"
  /\ idle' = IF si < Len(selected_sites) THEN 1 ELSE idle
  /\ si' = si + 1
  /\ pc' = "site_loop"
  /\ UNCHANGED <<choice, usernames, username, results, ret, exc, response,
                 driver, browser, probed, inflight, probe>>

\* check_username, line 202, and the loop's step
Sleep ==
  /\ pc = "sleep"
  /\ idle' = 1
  /\ si' = si + 1
  /\ pc' = "site_loop"
  /\ UNCHANGED <<choice, usernames, username, results, ret, exc, response,
                 driver, browser, probed, inflight, probe>>

\* ---------------------------------------------------------------- score
found_count(r) == Cardinality({ i \in 1..Len(r) : r[i].val.found })
total_sites(r) == Len(r)

\* round(x, 2) of a float held as millionths: hundredths, ties to even
Round2(micro) ==
  LET q == micro \div 10000
      rem == micro % 10000
  IN IF rem > 5000 \/ (rem = 5000 /\ q % 2 = 1) THEN q + 1 ELSE q

\* found_count / total_sites as a float, to the nearest millionth
FloatDiv(a, b) == (2 * a * 1000000 + b) \div (2 * b)

\* line 235 with // in place of /
possibility_score_floor(r) ==
  IF total_sites(r) > 0
  THEN Round2((found_count(r) \div total_sites(r)) * 1000000 * 100)
  ELSE 0

\* line 235: the score in hundredths of a percent
possibility_score(r) ==
  IF total_sites(r) > 0
  THEN Round2(FloatDiv(found_count(r), total_sites(r)) * 100)
  ELSE 0

\* main, lines 233-247: compute and print the report of one username
Report ==
  /\ pc = "report"
  /\ pc' = "next_user"
  /\ UNCHANGED <<choice, usernames, username, si, results, ret, exc, response,
                 driver, browser, idle, probed, inflight, probe>>

Next ==
  \/ ChooseCategory
  \/ NextUser
  \/ NextSite
  \/ CallRequests
  \/ PwEnter
  \/ PwLaunch
  \/ PwGoto
  \/ PwCapture
  \/ PwExcept
  \/ Store
  \/ Sleep
  \/ Report

Spec == Init /\ [][Next]_vars

\* ---------------------------------------------------------------- single probes
\* The probe functions applied to one (site definition, username, fetch):
\* the registry's sites and three further definitions a caller may pass.
ProbeSites ==
  DictMerge(CATEGORIES["3"].sites,
  << [key |-> "PlainApi", val |->
        [url |-> <<"https://", "data.example", "/v1", "/", "{}">>,
         method |-> "playwright",
         success_indicators |-> << >>,
         failure_indicators |-> << >>]],
     [key |-> "PlainFeed", val |->
        [url |-> <<"https://", "data.example", "/feed", "/", "{}">>,
         method |-> "requests",
         success_indicators |-> << >>,
         failure_indicators |-> << >>]],
     [key |-> "Forum", val |->
        [url |-> <<"https://", "forum.example", "/u", "/", "{}">>,
         method |-> "playwright",
         success_indicators |-> << <<"Member since">> >>,
         failure_indicators |-> << <<"No such member">> >>]] >>)

ProbeInputs ==
  UNION { UNION { { [site_config |-> ProbeSites[i].val, username |-> u, fetch |-> f] :
                      f \in IF ProbeSites[i].val.method = "playwright"
                            THEN PlaywrightFetches(ProbeSites[i].val, u)
                            ELSE RequestsFetches(ProbeSites[i].val, u) } :
                  u \in Handles } :
          i \in 1..Len(ProbeSites) }

ProbeInit ==
  /\ pc = "probe_call"
  /\ probe \in ProbeInputs
  /\ choice = "3"
  /\ usernames = <<>>
  /\ username = <<>>
  /\ si = 0
  /\ results = <<>>
  /\ ret = NoRet
  /\ exc = "none"
  /\ response = 0
  /\ driver = "stopped"
  /\ browser = "none"
  /\ idle = 0
  /\ probed = FALSE
  /\ inflight = 0

ProbeRequests ==
  /\ pc = "probe_call"
  /\ probe.site_config.method = "requests"
  /\ ret' = check_with_requests(probe.username, probe.site_config, probe.fetch)
  /\ pc' = "probe_done"
  /\ UNCHANGED <<choice, usernames, username, si, results, exc, response,
                 driver, browser, idle, probed, inflight, probe>>

ProbePlaywright ==
  /\ pc = "probe_call"
  /\ probe.site_config.method = "playwright"
  /\ ret' = check_with_playwright(probe.username, probe.site_config, probe.fetch)
  /\ pc' = "probe_done"
  /\ UNCHANGED <<choice, usernames, username, si, results, exc, response,
                 driver, browser, idle, probed, inflight, probe>>

ProbeNext == ProbeRequests \/ ProbePlaywright

ProbeSpec == ProbeInit /\ [][ProbeNext]_vars

\* ---------------------------------------------------------------- properties
ProbeDone == pc = "probe_done"
ProbeUrl == Format(probe.site_config.url, probe.username)
IsNotFound(r) == r = Ret(FALSE, NotFoundMsg)
IsError(r) == r = Ret(FALSE, ErrorMsg)

\* the body the fetch returned holds failure marker i, whatever the letter case
BodyHasFailureMarker ==
  \E i \in 1..Len(probe.site_config.failure_indicators) :
    Contains(Lower(probe.fetch.body), Lower(probe.site_config.failure_indicators[i]))

\* the body holds some success marker, the handle substituted, lowercased
BodyHasSuccessMarker ==
  \E i \in 1..Len(probe.site_config.success_indicators) :
    Contains(Lower(probe.fetch.body),
             Lower(Format(probe.site_config.success_indicators[i], probe.username)))

\* the spec's "body present": the fetch returned, and with status 200 for the
\* lightweight fetch
BodyPresent ==
  /\ probe.fetch.raises = "none"
  /\ probe.site_config.method = "requests" => probe.fetch.status = 200

NoMarkers ==
  /\ probe.site_config.success_indicators = <<>>
  /\ probe.site_config.failure_indicators = <<>>

\* the URL names one of the domains the fallback has a rule for
RecognizedFamily ==
  \E d \in {"snapchat.com", "instagram.com", "x.com", "twitter.com"} :
    Contains(ProbeUrl, <<d>>)

\* C1: when the fetched body contains a failure marker (case-insensitive),
\* the probe answers NotFound, whatever else the body holds, for both fetch
\* methods and every handle.
C1_FailurePrecedence ==
  (ProbeDone /\ probe.fetch.raises = "none" /\ BodyHasFailureMarker)
    => IsNotFound(ret)

\* C2: a fetch that raises a transport or render error yields "Error
\* checking" for that pair, nothing escapes check_username, every site of the
\* category is still checked for the handle and every handle is consumed.
C2_ErrorsContained ==
  /\ pc # "crashed"
  /\ (pc = "store" /\ exc # "none") => IsError(ret)
  /\ pc = "report" => Len(results) = Len(selected_sites)
  /\ pc = "done" => usernames = <<>>

C2_Witness ==
  /\ pc = "report"
  /\ \E i, j \in 1..Len(results) :
       i < j /\ IsError(results[i].val) /\ results[j].val.found

\* C3: when check_username has returned, results holds exactly one entry per
\* site of the selected category, in the category's order.
C3_OneEntryPerSite ==
  pc = "report" => Keys(results) = Keys(selected_sites)

C3_Witness ==
  /\ pc = "report"
  /\ \E i, j, k \in 1..Len(results) :
       /\ results[i].val.found
       /\ IsNotFound(results[j].val)
       /\ IsError(results[k].val)

\* C4: once check_with_playwright has returned, the browser it launched is
\* no longer open and the playwright session is stopped, on every exit path.
C4_BrowserTornDown ==
  pc \notin PwPcs => (browser # "open" /\ driver = "stopped")

\* a navigation timed out after the launch, and the function has returned
C4_Witness ==
  pc = "store" /\ exc = "TimeoutError" /\ browser = "closed" /\ IsError(ret)

\* C5: a site with no markers, on a domain without family rule, fetched with
\* status 200 by either method, is Found at the final URL of the fetch.
C5_BareStatusFound ==
  (ProbeDone /\ NoMarkers /\ ~RecognizedFamily
     /\ probe.fetch.raises = "none" /\ probe.fetch.status = 200)
    => ret = Ret(TRUE, probe.fetch.final_url)

\* C6 as stated: body present, no failure marker, some success marker in the
\* body: Found, located at the observation's final URL.
C6_FoundAtFinalUrl ==
  (ProbeDone /\ BodyPresent /\ ~BodyHasFailureMarker /\ BodyHasSuccessMarker)
    => ret = Ret(TRUE, probe.fetch.final_url)

\* C6 amended: body present, no failure marker, some success marker in the
\* body: Found, located at the requested URL (the site's URL template with
\* the handle substituted), also when the fetch ended at another URL.
C6_FoundAtRequestedUrl ==
  (ProbeDone /\ BodyPresent /\ ~BodyHasFailureMarker /\ BodyHasSuccessMarker)
    => ret = Ret(TRUE, ProbeUrl)

C6_Witness ==
  /\ ProbeDone /\ BodyPresent /\ ~BodyHasFailureMarker /\ BodyHasSuccessMarker
  /\ probe.fetch.final_url # ProbeUrl
  /\ ret = Ret(TRUE, ProbeUrl)

\* the score the claim states, in hundredths: 100 * found / total to the
\* nearest hundredth, 0 for no result; found counts the Found outcomes only
StatedScore(r) ==
  LET f == Cardinality({ i \in 1..Len(r) :
                           r[i].val.message \notin {NotFoundMsg, ErrorMsg} })
      t == Len(r)
  IN IF t = 0 THEN 0 ELSE (2 * 10000 * f + t) \div (2 * t)

\* C7: the presence score of a handle is 100 * foundCount / totalSites
\* rounded to 2 decimals, Error and NotFound counting as not found, 0 for no
\* sites, and within [0, 100] (checked for results and each of its prefixes).
C7_Score ==
  pc = "report" =>
    \A k \in 0..Len(results) :
      LET r == SubSeq(results, 1, k)
      IN /\ possibility_score(r) = StatedScore(r)
         /\ possibility_score(r) \in 0..10000

C7_Witness ==
  /\ pc = "report"
  /\ possibility_score(results) = 3333
  /\ \E i \in 1..Len(results) : IsError(results[i].val)

ProbeStarts == pc = "site_loop" /\ pc' \in {"requests", "pw_enter"}

\* C8: probes run one at a time, site by site in the category's order, and
\* every probe but the first of the run starts after a delay of at least one
\* second since the previous probe returned, across handles too.
C8_SequentialPaced ==
  /\ [](inflight <= 1)
  /\ [][ProbeStarts => /\ inflight = 0
                       /\ Keys(results) = SubSeq(Keys(selected_sites), 1, si - 1)
                       /\ probed => idle >= 1]_vars

\* the first probe of a later handle is starting, after the delay
C8_Witness ==
  pc \in {"requests", "pw_enter"} /\ si = 1 /\ probed /\ idle = 1 /\ inflight = 1

SomeMarker == ~NoMarkers

AmbiguousEvidence ==
  /\ ProbeDone /\ SomeMarker /\ ~RecognizedFamily
  /\ probe.fetch.raises = "none" /\ probe.fetch.status = 200
  /\ ~BodyHasFailureMarker /\ ~BodyHasSuccessMarker

\* C9 as stated: status 200, markers configured, none matching, no family
\* rule for the domain: NotFound for either fetch method.
C9_AmbiguousNotFound ==
  AmbiguousEvidence => IsNotFound(ret)

\* C9 amended: in that case the rendered fetch answers NotFound, and the
\* lightweight fetch answers Found at the requested URL.
C9_AmbiguousByMethod ==
  AmbiguousEvidence =>
    IF probe.site_config.method = "playwright"
    THEN IsNotFound(ret)
    ELSE ret = Ret(TRUE, ProbeUrl)

C9_Witness ==
  /\ AmbiguousEvidence
  /\ probe.site_config.method = "requests"
  /\ ret = Ret(TRUE, ProbeUrl)

\* (found, message) is one of the three shapes for the site and username
WellFormed(r, url_template) ==
  /\ r.found <=> r.message = Format(url_template, username)
  /\ ~r.found <=> r.message \in {NotFoundMsg, ErrorMsg}

\* C10: every (found, message) a probe returns and check_username stores has
\* found true exactly with the resolved URL as message, and found false
\* exactly with "Not Found" or "Error checking".
C10_ResultShape ==
  /\ pc = "store" => WellFormed(ret, site_config.url)
  /\ \A i \in 1..Len(results) :
       /\ results[i].key = selected_sites[i].key
       /\ WellFormed(results[i].val, selected_sites[i].val.url)

\* GitHub answered something else than 200 and the result was stored
C10_Witness ==
  /\ pc = "sleep"
  /\ site_name = "GitHub"
  /\ exc = "none"
  /\ IsNotFound(results[Len(results)].val)
  /\ \E i \in 1..Len(results) : results[i].val.found

====
